---- MODULE Spec2Model ----
(***************************************************************************)
(* PaddingFIFOQueue (tensorflow/core/kernels/padding_fifo_queue.cc):       *)
(* the dequeue-many protocol of a bounded multi-component FIFO queue.      *)
(*                                                                         *)
(* The element store queues_ is one container per component.  A tensor in  *)
(* the store is named by the number of the element it belongs to (1, 2,    *)
(* ... in the order the producers created them); its shape is              *)
(* TensorShapeOf.  0 names the default-constructed (empty) tensor.          *)
(*                                                                         *)
(* The queue-wide mutex mu_ is the variable mu: every step that the code   *)
(* takes under mutex_lock is an action guarded by it, and FlushUnlocked's  *)
(* pass over the attempts is one action per run of a progress function.    *)
(***************************************************************************)
EXTENDS Integers, Sequences, FiniteSets, TLC

\* ---------------------------------------------------------------- bounds
MaxDequeues == 2
MaxElements == 3
MaxCloses == 1
MaxAllocFailures == 1
MaxRejected == 1
PadCapacity == 3

\* ------------------------------------------------------- program constants
MaxHandledRank == 4

DequeueCalls == 1..MaxDequeues
Uninit == 0

\* The element types TF_CALL_ALL_TYPES expands to (a sample of them).
AllTypes == {"float", "int32", "string", "bool"}

\* The queues the model constructs: component types and partial shapes (-1 is
\* a free dimension).  The second has a type outside AllTypes, the third a
\* component of rank 5.
QueueConfigs ==
  { [dtypes |-> <<"float", "int32">>, shapes |-> << <<-1>>, <<2>> >>],
    [dtypes |-> <<"qint8", "int32">>, shapes |-> << <<-1>>, <<2>> >>],
    [dtypes |-> <<"float", "int32">>, shapes |-> << <<-1, 1, 1, 1, 1>>, <<2>> >>] }

\* Queues whose first component has two free dimensions, one free and one
\* fixed dimension, and one free dimension; the second is of fixed shape.
PadConfigs ==
  { [dtypes |-> <<"float", "int32">>, shapes |-> << <<-1, -1>>, <<2>> >>],
    [dtypes |-> <<"float", "int32">>, shapes |-> << <<-1, 2>>, <<>> >>],
    [dtypes |-> <<"float", "int32">>, shapes |-> << <<-1>>, <<2>> >>] }

\* The capacities the model constructs a queue with.
Capacities == {1, 2}

VARIABLES
  capacity,           \* capacity_
  component_dtypes,   \* component_dtypes_
  partial_shapes,     \* partial_shapes_
  queues,             \* queues_: one sequence of tensors per component
  closed,             \* closed_
  enqueue_attempts,   \* enqueue_attempts_
  dequeue_attempts,   \* dequeue_attempts_
  mu,                 \* "free", or "flush" while FlushUnlocked holds mu_
  pass,               \* the attempt FlushUnlocked runs next
  changed,            \* FlushUnlocked's changed
  clean_up,           \* FlushUnlocked's clean_up: completions to call back
  flush_pending,      \* some caller is about to call FlushUnlocked
  ctx_status,         \* per dequeue call: its OpKernelContext's status
  call_op,            \* per dequeue call: what was called
  callback_count,     \* per dequeue call: invocations of its callback
  callback_tuple,     \* per dequeue call: the tuple its callback received
  removed_count,      \* per dequeue call: removals of its Attempt from the ledger
  next_element,       \* the number of the next element a producer creates
  closes,             \* Close calls so far
  alloc_failures,     \* allocation failures the environment may still inject
  admitted,           \* history: elements in the order they were pushed
  delivered,          \* history: elements in the order they were delivered
  restored,           \* history, per dequeue call: collected elements put back
  enqueue_op,         \* the last Enqueue op: its tuple and the status it returned
  rejected            \* Enqueue ops that returned an error so far

vars == <<capacity, component_dtypes, partial_shapes, queues, closed, enqueue_attempts,
          dequeue_attempts, mu, pass, changed, clean_up, flush_pending,
          ctx_status, call_op, callback_count, callback_tuple, removed_count,
          next_element, closes, alloc_failures, admitted, delivered,
          restored, enqueue_op, rejected>>

config == <<capacity, component_dtypes, partial_shapes>>
store == <<queues, closed>>
ledgers == <<enqueue_attempts, dequeue_attempts>>
flush == <<mu, pass, changed, clean_up>>
calls == <<ctx_status, call_op, callback_count, callback_tuple, removed_count>>
history == <<admitted, delivered, restored>>
admission == <<enqueue_op, rejected>>

\* ------------------------------------------------------------- helpers
\* num_components()
num_components == Len(component_dtypes)

Components == 1..num_components

Min(a, b) == IF a < b THEN a ELSE b
Max(a, b) == IF a > b THEN a ELSE b

RECURSIVE Product(_)
Product(shape) == IF shape = <<>> THEN 1 ELSE Head(shape) * Product(Tail(shape))

NumElements(shape) == Product(shape)

RemoveAt(seq, k) == SubSeq(seq, 1, k - 1) \o SubSeq(seq, k + 1, Len(seq))

\* Status::Update, which OpKernelContext::SetStatus applies: the first error stays.
SetStatus(old, new) == IF old = "OK" THEN new ELSE old

\* The free dimension of the e-th element a producer creates.
ElementDim(e) == e % 3

\* The size of free dimension d of the e-th element.
ElementDimAt(e, d) == (ElementDim(e) + d - 1) % 3

\* The shape of component i of element e, a tuple that passed ValidateTuple.
TensorShapeOf(e, i) ==
  IF e = Uninit THEN <<0>>
  ELSE [d \in 1..Len(partial_shapes[i]) |->
          IF partial_shapes[i][d] > -1 THEN partial_shapes[i][d]
          ELSE ElementDimAt(e, d)]

MakeTuple(e) == [i \in Components |-> e]

Size == Len(queues[1])

EmptyTuple == <<>>

\* ------------------------------------------------ shapes and the assembler
\* PartialTensorShape::IsFullyDefined
IsFullyDefined(shape) == \A d \in 1..Len(shape) : shape[d] > -1

\* Variant: free dimensions are left as they are.
ConvertShapesKeepPartial(shapes) == shapes

ConvertShapesPartialDimensionsToZero(shapes) ==
  [i \in DOMAIN shapes |->
     [d \in 1..Len(shapes[i]) |-> IF shapes[i][d] < 0 THEN 0 ELSE shapes[i][d]]]

\* component_shapes_, as the constructor hands it to FIFOQueue.
component_shapes == ConvertShapesPartialDimensionsToZero(partial_shapes)

\* QueueBase::ManyOutShape: [batch_size] ++ component_shapes_[i].
ManyOutShape(i, batch_size) == <<batch_size>> \o component_shapes[i]

\* The indexes of a tensor of the given shape, each dimension from 0.
RECURSIVE Indexes(_)
Indexes(shape) ==
  IF shape = <<>> THEN {<<>>}
  ELSE {<<h>> \o t : h \in 0..(Head(shape) - 1), t \in Indexes(Tail(shape))}

\* The row-major offset of idx in a tensor of the given shape.
RECURSIVE RowMajor(_, _)
RowMajor(idx, shape) ==
  IF idx = <<>> THEN 0
  ELSE Head(idx) * Product(Tail(shape)) + RowMajor(Tail(idx), Tail(shape))

\* The value element e holds in component i at idx: never zero, and different
\* at every position of every element.
ElementValue(e, i, idx) == e * 100 + i * 10 + RowMajor(idx, TensorShapeOf(e, i)) + 1

\* The contents of component i of element e.
TensorValues(e, i) ==
  [idx \in Indexes(TensorShapeOf(e, i)) |-> ElementValue(e, i, idx)]

\* What freshly allocated memory holds.
Garbage == -1

\* allocate_temp: a tensor of the shape, its contents not initialised.
AllocateTemp(shape) == [idx \in Indexes(shape) |-> Garbage]

\* Variant: the buffer is left as it was allocated.
SetConstantNothing(parent) == parent

\* element->flat<T>().setConstant(T())
SetConstantZero(parent) == [idx \in DOMAIN parent |-> 0]

\* parent_t.slice(slice_indices, slice_size) = element_t.reshape(slice_size):
\* the element's extent of slot index is overwritten, the rest is kept.
SliceAssign(element, element_shape, parent, index) ==
  [idx \in DOMAIN parent |->
     IF /\ idx[1] = index
        /\ \A d \in 1..Len(element_shape) : idx[d + 1] < element_shape[d]
     THEN element[Tail(idx)]
     ELSE parent[idx]]

\* QueueBase::CopyElementToSlice: slot index becomes the element, which has
\* the slot's shape.
CopySlice(element, parent, index) ==
  [idx \in DOMAIN parent |->
     IF idx[1] = index THEN element[Tail(idx)] ELSE parent[idx]]

\* A batched tensor: its shape, per row the element copied into it, and its
\* contents.
BatchTensor(shape, rows, values) == [shape |-> shape, rows |-> rows, values |-> values]

\* TryDequeueMany with num_elements == 0: the tuple handed to the callback.
ZeroBatchTuple ==
  [i \in Components |->
     BatchTensor(ManyOutShape(i, 0), <<>>, AllocateTemp(ManyOutShape(i, 0)))]

DimSize(shape, d) == IF d \in 1..Len(shape) THEN shape[d] ELSE 0

\* Variant: the size in the first tuple is taken for the maximum.
MaxDimFirst(tuples, i, d, max_val) ==
  IF tuples = <<>> THEN max_val
  ELSE DimSize(TensorShapeOf(Head(tuples)[i], i), d)

RECURSIVE MaxDimOver(_, _, _, _)
MaxDimOver(tuples, i, d, max_val) ==
  IF tuples = <<>> THEN max_val
  ELSE MaxDimOver(Tail(tuples), i, d,
                  Max(max_val, DimSize(TensorShapeOf(Head(tuples)[i], i), d)))

\* The shape of output component i for the collected tuples.
BatchShape(i, tuples) ==
  <<Len(tuples)>> \o
  [d \in 1..Len(partial_shapes[i]) |->
     IF partial_shapes[i][d] > -1 THEN partial_shapes[i][d]
     ELSE MaxDimOver(tuples, i, d, 0)]

SetElementZero(dtype) == IF dtype \in AllTypes THEN "OK" ELSE "Unimplemented"

HandleElementToLargerSlice(element_shape, parent_shape) ==
  IF NumElements(element_shape) > NumElements(parent_shape) \div parent_shape[1]
  THEN "Internal" ELSE "OK"

CopyElementToLargerSlice(element_shape, dtype, parent_shape) ==
  IF Len(parent_shape) # Len(element_shape) + 1 THEN "Internal"
  ELSE IF Len(element_shape) > MaxHandledRank THEN "Unimplemented"
  ELSE IF dtype \notin AllTypes THEN "Unimplemented"
  ELSE HandleElementToLargerSlice(element_shape, parent_shape)

\* QueueBase::CopyElementToSlice: the direct copy of an element into its slot.
CopyElementToSlice(element_shape, dtype, parent_shape) ==
  IF NumElements(element_shape) # NumElements(parent_shape) \div parent_shape[1]
  THEN "Internal"
  ELSE IF dtype \notin AllTypes THEN "Unimplemented"
  ELSE "OK"

\* The statuses the assembler hands to SetStatus, in the order of the code:
\* one zero-fill per component of dynamic shape, then one copy per element
\* and component.
ZeroFillSteps ==
  LET dyn == SelectSeq([i \in Components |-> i],
                       LAMBDA i : ~IsFullyDefined(partial_shapes[i]))
  IN [k \in 1..Len(dyn) |-> SetElementZero(component_dtypes[dyn[k]])]

CopySteps(tuples) ==
  [p \in 1..(Len(tuples) * num_components) |->
     LET index == ((p - 1) \div num_components) + 1
         i == ((p - 1) % num_components) + 1
         element_shape == TensorShapeOf(tuples[index][i], i)
     IN IF ~IsFullyDefined(partial_shapes[i])
        THEN CopyElementToLargerSlice(element_shape, component_dtypes[i],
                                      BatchShape(i, tuples))
        ELSE CopyElementToSlice(element_shape, component_dtypes[i],
                                BatchShape(i, tuples))]

\* Variant: the statuses of the steps are not looked at.
RunStepsUnchecked(status, steps) == status

\* SetStatus(step); if (!status().ok()) return kComplete; for each step.
RECURSIVE RunSteps(_, _)
RunSteps(status, steps) ==
  IF steps = <<>> THEN status
  ELSE LET st == SetStatus(status, Head(steps))
       IN IF st # "OK" THEN st ELSE RunSteps(st, Tail(steps))

AssembleStatus(status, tuples) ==
  RunSteps(status, ZeroFillSteps \o CopySteps(tuples))

\* The copy loop over the collected tuples, for component i, from index on.
RECURSIVE CopyRows(_, _, _, _)
CopyRows(parent, i, tuples, index) ==
  IF index >= Len(tuples) THEN parent
  ELSE CopyRows(
         IF ~IsFullyDefined(partial_shapes[i])
         THEN SliceAssign(TensorValues(tuples[index + 1][i], i),
                          TensorShapeOf(tuples[index + 1][i], i), parent, index)
         ELSE CopySlice(TensorValues(tuples[index + 1][i], i), parent, index),
         i, tuples, index + 1)

\* The contents of output component i: allocated, zeroed when the shape is
\* dynamic, then filled slot by slot.
ComponentValues(i, tuples) ==
  CopyRows(IF ~IsFullyDefined(partial_shapes[i])
           THEN SetConstantZero(AllocateTemp(BatchShape(i, tuples)))
           ELSE AllocateTemp(BatchShape(i, tuples)),
           i, tuples, 0)

\* Variant: the copy loop stops one element short.
AssembleTupleShort(tuples) ==
  [i \in Components |->
     BatchTensor(<<Len(tuples) - 1>> \o Tail(BatchShape(i, tuples)),
                 [k \in 1..(Len(tuples) - 1) |-> tuples[k][i]],
                 ComponentValues(i, SubSeq(tuples, 1, Len(tuples) - 1)))]

\* attempt->tuple on success: per component, the n collected elements as rows.
AssembleTuple(tuples) ==
  [i \in Components |->
     BatchTensor(BatchShape(i, tuples), [k \in 1..Len(tuples) |-> tuples[k][i]],
                 ComponentValues(i, tuples))]

\* ------------------------------------------------------ the element store
\* FIFOQueue::DequeueLocked: pop the front of every component's container.
DequeueLocked(qs) ==
  [tuple |-> [i \in Components |-> Head(qs[i])],
   queues |-> [i \in Components |-> Tail(qs[i])]]

\* GetElementComponent: a copy of tuple[component], or nothing when
\* allocate_persistent fails.
GetElementComponent(tuple, component, fails) ==
  IF fails THEN [ok |-> FALSE, element |-> Uninit]
  ELSE [ok |-> TRUE, element |-> tuple[component]]

\* Restore already-dequeued elements to the front of the queue: tuples i down
\* to 1, each component pushed to the front of its container.  failing is the
\* set of <<i, j>> whose copy fails.
RECURSIVE RestoreFrom(_, _, _, _)
RestoreFrom(qs, tuples, i, failing) ==
  IF i < 1 THEN qs
  ELSE RestoreFrom(
         [j \in Components |->
            <<GetElementComponent(tuples[i], j, <<i, j>> \in failing).element>>
            \o qs[j]],
         tuples, i - 1, failing)

\* Variant: a component whose copy failed is not pushed.
RECURSIVE RestoreFromSkipFailed(_, _, _, _)
RestoreFromSkipFailed(qs, tuples, i, failing) ==
  IF i < 1 THEN qs
  ELSE RestoreFromSkipFailed(
         [j \in Components |->
            IF <<i, j>> \in failing THEN qs[j]
            ELSE <<GetElementComponent(tuples[i], j, FALSE).element>> \o qs[j]],
         tuples, i - 1, failing)

RestoreTuplesSkipFailed(qs, tuples, failing) ==
  RestoreFromSkipFailed(qs, tuples, Len(tuples), failing)

\* Variant: the loop runs i upwards, so the last collected tuple ends in front.
RECURSIVE RestoreUpFrom(_, _, _, _)
RestoreUpFrom(qs, tuples, i, failing) ==
  IF i > Len(tuples) THEN qs
  ELSE RestoreUpFrom(
         [j \in 1..Len(qs) |->
            <<GetElementComponent(tuples[i], j, <<i, j>> \in failing).element>>
            \o qs[j]],
         tuples, i + 1, failing)

RestoreTuplesForward(qs, tuples, failing) == RestoreUpFrom(qs, tuples, 1, failing)

\* Variant: the loop stops at i > 0 and leaves the first collected tuple out.
RestoreTuplesButFirst(qs, tuples, failing) ==
  IF tuples = <<>> THEN qs
  ELSE [j \in 1..Len(qs) |-> SubSeq(RestoreFrom(qs, tuples, Len(tuples), failing)[j],
                                    2, Len(tuples) + Len(qs[j]))]

RestoreTuples(qs, tuples, failing) == RestoreFrom(qs, tuples, Len(tuples), failing)

\* ------------------------------------- the progress function of TryDequeueMany
\* Variant: the popped tuple is put in front of the collected ones.
CollectInFront(attempt, tuple) ==
  [attempt EXCEPT !.tuples = <<tuple>> \o @, !.elements_requested = @ - 1]

\* attempt->tuples.push_back(tuple); --attempt->elements_requested;
Collect(attempt, tuple) ==
  [attempt EXCEPT !.tuples = Append(@, tuple), !.elements_requested = @ - 1]

\* Variant: the loop body never runs.
PopNothing(s, attempt, qs, result) ==
  [result |-> result, attempt |-> attempt, queues |-> qs]

\* for (; s > 0; --s): pop, collect, decrement, and stop when nothing is left
\* to collect.
RECURSIVE PopLoop(_, _, _, _)
PopLoop(s, attempt, qs, result) ==
  IF s <= 0 THEN [result |-> result, attempt |-> attempt, queues |-> qs]
  ELSE LET d == DequeueLocked(qs)
           a == Collect(attempt, d.tuple)
       IN IF a.elements_requested = 0
          THEN [result |-> "kComplete", attempt |-> a, queues |-> d.queues]
          ELSE PopLoop(s - 1, a, d.queues, "kProgress")

\* Variant: a closed queue is never found short.
ClosedNeverInsufficient(is_closed, s, elements_requested) == FALSE

\* Variant: a closed queue that holds exactly what is needed counts as short.
ClosedInsufficientOrEqual(is_closed, s, elements_requested) ==
  is_closed /\ s <= elements_requested

\* closed_ && s < attempt->elements_requested
ClosedInsufficient(is_closed, s, elements_requested) ==
  is_closed /\ s < elements_requested

\* The run_callback of a TryDequeueMany attempt, under mu_.  It yields the
\* RunResult, the attempt and store as it leaves them, the context's status,
\* the tuple bound into done_callback (EmptyTuple: the callback registered at
\* line 95) and what it restored.
DequeueManyRun(attempt, qs, is_closed, status, failing) ==
  LET s == Len(qs[1])
  IN IF ClosedInsufficient(is_closed, s, attempt.elements_requested)
     THEN [result |-> "kComplete",
           attempt |-> attempt,
           queues |-> IF attempt.tuples # <<>>
                      THEN RestoreTuples(qs, attempt.tuples, failing) ELSE qs,
           status |-> IF attempt.tuples # <<>> /\ failing # {}
                      THEN SetStatus(SetStatus(status, "OutOfRange"), "DataLoss")
                      ELSE SetStatus(status, "OutOfRange"),
           done_tuple |-> EmptyTuple,
           restored |-> attempt.tuples]
     ELSE LET p == PopLoop(s, attempt, qs, "kNoProgress")
          IN IF p.result # "kComplete"
             THEN [result |-> p.result, attempt |-> p.attempt, queues |-> p.queues,
                   status |-> status, done_tuple |-> EmptyTuple, restored |-> <<>>]
             ELSE LET st == AssembleStatus(status, p.attempt.tuples)
                  IN IF st # "OK"
                     THEN [result |-> "kComplete", attempt |-> p.attempt,
                           queues |-> p.queues, status |-> st,
                           done_tuple |-> EmptyTuple, restored |-> <<>>]
                     ELSE [result |-> "kComplete",
                           attempt |-> [p.attempt EXCEPT !.tuples = <<>>],
                           queues |-> p.queues, status |-> st,
                           done_tuple |-> AssembleTuple(p.attempt.tuples),
                           restored |-> <<>>]

\* The run_callback of a FIFOQueue::TryDequeue attempt (one element, no batch
\* dimension).
DequeueRun(attempt, qs, is_closed, status) ==
  LET s == Len(qs[1])
  IN IF is_closed /\ s = 0
     THEN [result |-> "kComplete", attempt |-> attempt, queues |-> qs,
           status |-> SetStatus(status, "OutOfRange"),
           done_tuple |-> EmptyTuple, restored |-> <<>>]
     ELSE IF s > 0
     THEN LET d == DequeueLocked(qs)
          IN [result |-> "kComplete", attempt |-> attempt, queues |-> d.queues,
              status |-> status,
              done_tuple |-> [i \in Components |->
                                BatchTensor(TensorShapeOf(d.tuple[i], i),
                                            <<d.tuple[i]>>,
                                            TensorValues(d.tuple[i], i))],
              restored |-> <<>>]
     ELSE [result |-> "kNoProgress", attempt |-> attempt, queues |-> qs,
           status |-> status, done_tuple |-> EmptyTuple, restored |-> <<>>]

\* ------------------------------------------------- enqueue-side attempts
\* Free slots of the store; capacity <= 0 means unbounded.
Room(qs) ==
  IF capacity <= 0 THEN MaxElements ELSE Max(0, capacity - Len(qs[1]))

\* The run_callback of an enqueue-side attempt: Close(false) sets closed_;
\* an enqueue fails once the queue is closed and otherwise pushes its tuples,
\* in order, while the store has room.
EnqueueRun(attempt, qs, is_closed) ==
  IF attempt.kind = "close"
  THEN [result |-> "kComplete", attempt |-> attempt, queues |-> qs,
        closed |-> TRUE, pushed |-> <<>>]
  ELSE IF is_closed
  THEN [result |-> "kComplete", attempt |-> attempt, queues |-> qs,
        closed |-> is_closed, pushed |-> <<>>]
  ELSE LET m == Min(Room(qs), Len(attempt.tuples))
           now == SubSeq(attempt.tuples, 1, m)
       IN [result |-> IF m = Len(attempt.tuples) THEN "kComplete"
                      ELSE IF m > 0 THEN "kProgress" ELSE "kNoProgress",
           attempt |-> [attempt EXCEPT
                          !.tuples = SubSeq(@, m + 1, Len(@))],
           queues |-> [i \in Components |->
                         qs[i] \o [k \in 1..m |-> now[k][i]]],
           closed |-> is_closed,
           pushed |-> [k \in 1..m |-> now[k][1]]]

\* ------------------------------------------------------------------ Init
NoCall == [kind |-> "none", n |-> 0, already |-> FALSE, after_close |-> FALSE]

\* No Enqueue op was run yet.
NoEnqueue == [tuple |-> <<>>, status |-> "none"]

StartPass == [ledger |-> "enqueue", idx |-> 1]

InitWith(capacities, configs) ==
  /\ capacity \in capacities
  /\ \E cfg \in configs :
       /\ component_dtypes = cfg.dtypes
       /\ partial_shapes = cfg.shapes
  /\ queues = [i \in Components |-> <<>>]
  /\ closed = FALSE
  /\ enqueue_attempts = <<>>
  /\ dequeue_attempts = <<>>
  /\ mu = "free"
  /\ pass = StartPass
  /\ changed = FALSE
  /\ clean_up = <<>>
  /\ flush_pending = FALSE
  /\ ctx_status = [c \in DequeueCalls |-> "OK"]
  /\ call_op = [c \in DequeueCalls |-> NoCall]
  /\ callback_count = [c \in DequeueCalls |-> 0]
  /\ callback_tuple = [c \in DequeueCalls |-> EmptyTuple]
  /\ removed_count = [c \in DequeueCalls |-> 0]
  /\ next_element = 1
  /\ closes = 0
  /\ admitted = <<>>
  /\ delivered = <<>>
  /\ restored = [c \in DequeueCalls |-> 0]
  /\ enqueue_op = NoEnqueue
  /\ rejected = 0

InitQueue == InitWith(Capacities, QueueConfigs)

Init == InitQueue /\ alloc_failures = 0

\* Queues with components of more than one free dimension.
InitPad == InitWith({PadCapacity}, PadConfigs) /\ alloc_failures = 0

\* The environment may let copies of a restoration fail.
InitFault == InitQueue /\ alloc_failures = MaxAllocFailures

\* --------------------------------------------------------------- producers
\* TryEnqueue: register an attempt to push one validated tuple, then flush.
TryEnqueue ==
  /\ mu = "free"
  /\ next_element <= MaxElements
  /\ enqueue_attempts' =
       Append(enqueue_attempts,
              [kind |-> "enqueue", tuples |-> <<MakeTuple(next_element)>>])
  /\ next_element' = next_element + 1
  /\ flush_pending' = TRUE
  /\ UNCHANGED <<config, admission, store, dequeue_attempts, flush, calls, closes,
                 alloc_failures, history>>

\* A tensor offered to Enqueue: its element type and its shape.
TensorOf(dtype, shape) == [dtype |-> dtype, shape |-> shape]

\* The tuple of element e as its producer builds it.
WellFormed(e) ==
  [i \in Components |-> TensorOf(component_dtypes[i], TensorShapeOf(e, i))]

\* An element type other than dtype.
OtherType(dtype) == IF dtype = "bool" THEN "string" ELSE "bool"

\* The tuples a caller offers for element e: the well-formed one and ones
\* with a component missing or added, a component of another type, a
\* dimension one larger or smaller, or a dimension missing or added.
Candidates(e) ==
  LET t == WellFormed(e)
  IN {t, SubSeq(t, 1, Len(t) - 1), Append(t, t[1])}
     \cup {[t EXCEPT ![i].dtype = OtherType(@)] : i \in Components}
     \cup {[t EXCEPT ![i].shape[d] = @ + 1] :
              i \in Components, d \in 1..1}
     \cup {[t EXCEPT ![i].shape[1] = @ - 1] :
              i \in {j \in Components : t[j].shape[1] > 0}}
     \cup {[t EXCEPT ![i].shape = Tail(@)] : i \in Components}
     \cup {[t EXCEPT ![i].shape = Append(@, 1)] : i \in Components}

\* QueueBase::ValidateTupleCommon: the number of components and their types.
ValidateTupleCommon(tuple) ==
  IF Len(tuple) # num_components THEN "InvalidArgument"
  ELSE IF \E i \in Components : tuple[i].dtype # component_dtypes[i]
  THEN "InvalidArgument"
  ELSE "OK"

\* PartialTensorShape::IsCompatibleWith(shape)
IsCompatibleWith(partial, shape) ==
  /\ Len(partial) = Len(shape)
  /\ \A d \in 1..Len(partial) : partial[d] = -1 \/ partial[d] = shape[d]

\* Variant: only the common validation is done.
ValidateTupleCommonOnly(tuple) == ValidateTupleCommon(tuple)

\* PaddingFIFOQueue::ValidateTuple
ValidateTuple(tuple) ==
  IF ValidateTupleCommon(tuple) # "OK" THEN ValidateTupleCommon(tuple)
  ELSE IF \E i \in Components : ~IsCompatibleWith(partial_shapes[i], tuple[i].shape)
  THEN "InvalidArgument"
  ELSE "OK"

\* The Enqueue op: ValidateTuple, and TryEnqueue only for a tuple that passed;
\* the error of a rejected tuple is the op's status.
Enqueue(tuple) ==
  /\ mu = "free"
  /\ next_element <= MaxElements
  /\ tuple \in Candidates(next_element)
  /\ enqueue_op' = [tuple |-> tuple, status |-> ValidateTuple(tuple)]
  /\ IF ValidateTuple(tuple) = "OK"
     THEN /\ enqueue_attempts' =
               Append(enqueue_attempts,
                      [kind |-> "enqueue", tuples |-> <<MakeTuple(next_element)>>])
          /\ next_element' = next_element + 1
          /\ flush_pending' = TRUE
          /\ UNCHANGED rejected
     ELSE /\ rejected < MaxRejected
          /\ rejected' = rejected + 1
          /\ UNCHANGED <<enqueue_attempts, next_element, flush_pending>>
  /\ UNCHANGED <<config, store, dequeue_attempts, flush, calls, closes,
                 alloc_failures, history>>

\* TryEnqueueMany: one attempt pushes the batch's rows in order.
TryEnqueueMany(batch_size) ==
  /\ mu = "free"
  /\ next_element + batch_size - 1 <= MaxElements
  /\ enqueue_attempts' =
       Append(enqueue_attempts,
              [kind |-> "enqueue",
               tuples |-> [k \in 1..batch_size |-> MakeTuple(next_element + k - 1)]])
  /\ next_element' = next_element + batch_size
  /\ flush_pending' = TRUE
  /\ UNCHANGED <<config, admission, store, dequeue_attempts, flush, calls, closes,
                 alloc_failures, history>>

\* --------------------------------------------------------------- consumers
IsNextCall(c) ==
  /\ call_op[c].kind = "none"
  /\ \A d \in DequeueCalls : d < c => call_op[d].kind # "none"

\* Variant: the registration never reports a cancelled manager.
RegisterCallbackAlways(context_cancelled) == TRUE

\* cm->RegisterCallback(token, ...): refused when the manager is cancelled.
RegisterCallback(context_cancelled) == ~context_cancelled

\* done_callback as registered with the attempt: callback(Tuple()).
RegisteredDoneTuple == EmptyTuple

\* dequeue_attempts_.emplace_back(num_elements, ..., ctx, cm, token, run_callback)
NewDequeueAttempt(c, num_elements) ==
  [call |-> c, many |-> TRUE, elements_requested |-> num_elements, tuples |-> <<>>]

\* Variant: the attempt is registered whether or not the manager is cancelled.
RegistersAttemptAlways(already_cancelled) == TRUE

\* if (!already_cancelled) { dequeue_attempts_.emplace_back(...) }
RegistersAttempt(already_cancelled) == ~already_cancelled

\* Variant: the attempt is put at the front of the ledger.
EmplaceFront(attempts, attempt) == <<attempt>> \o attempts

\* dequeue_attempts_.emplace_back(...)
EmplaceBack(attempts, attempt) == Append(attempts, attempt)

TryDequeueMany(c, num_elements, context_cancelled) ==
  /\ IsNextCall(c)
  /\ call_op' = [call_op EXCEPT
                   ![c] = [kind |-> "many", n |-> num_elements,
                           already |-> context_cancelled, after_close |-> closed]]
  /\ \/ /\ num_elements = 0
        /\ callback_count' = [callback_count EXCEPT ![c] = @ + 1]
        /\ callback_tuple' = [callback_tuple EXCEPT ![c] = ZeroBatchTuple]
        /\ UNCHANGED <<dequeue_attempts, flush_pending, ctx_status>>
     \/ /\ num_elements # 0
        /\ mu = "free"
        /\ LET already_cancelled == ~RegisterCallback(context_cancelled)
           IN /\ dequeue_attempts' =
                   IF RegistersAttempt(already_cancelled)
                   THEN EmplaceBack(dequeue_attempts,
                                    NewDequeueAttempt(c, num_elements))
                   ELSE dequeue_attempts
              /\ IF ~already_cancelled
                 THEN /\ flush_pending' = TRUE
                      /\ UNCHANGED <<ctx_status, callback_count, callback_tuple>>
                 ELSE /\ ctx_status' =
                           [ctx_status EXCEPT ![c] = SetStatus(@, "Cancelled")]
                      /\ callback_count' = [callback_count EXCEPT ![c] = @ + 1]
                      /\ callback_tuple' = [callback_tuple EXCEPT ![c] = EmptyTuple]
                      /\ UNCHANGED flush_pending
  /\ UNCHANGED <<config, admission, store, enqueue_attempts, flush, removed_count,
                 next_element, closes, alloc_failures, history>>

\* FIFOQueue::TryDequeue: one element, the same registration.
TryDequeue(c, context_cancelled) ==
  /\ IsNextCall(c)
  /\ mu = "free"
  /\ call_op' = [call_op EXCEPT
                   ![c] = [kind |-> "one", n |-> 1, already |-> context_cancelled,
                           after_close |-> closed]]
  /\ \/ /\ ~context_cancelled
        /\ dequeue_attempts' =
             Append(dequeue_attempts,
                    [call |-> c, many |-> FALSE, elements_requested |-> 1,
                     tuples |-> <<>>])
        /\ flush_pending' = TRUE
        /\ UNCHANGED <<ctx_status, callback_count, callback_tuple>>
     \/ /\ context_cancelled
        /\ ctx_status' = [ctx_status EXCEPT ![c] = SetStatus(@, "Cancelled")]
        /\ callback_count' = [callback_count EXCEPT ![c] = @ + 1]
        /\ callback_tuple' = [callback_tuple EXCEPT ![c] = EmptyTuple]
        /\ UNCHANGED <<dequeue_attempts, flush_pending>>
  /\ UNCHANGED <<config, admission, store, enqueue_attempts, flush, removed_count,
                 next_element, closes, alloc_failures, history>>

\* ------------------------------------------------- cancellation and close
AttemptIndex(c) == CHOOSE k \in 1..Len(dequeue_attempts) : dequeue_attempts[k].call = c

HasAttempt(c) == \E k \in 1..Len(dequeue_attempts) : dequeue_attempts[k].call = c

\* The copies of a restoration that the environment lets fail.
FailingSets(tuples) ==
  {F \in SUBSET ((1..Len(tuples)) \X Components) : Cardinality(F) <= alloc_failures}

\* Cancel(kDequeue, cm, token), the callback registered at line 91, run when the
\* caller's context is cancelled: the attempt fails with Cancelled, what it
\* collected goes back to the front of the store, and its done_callback runs.
Cancel(c) ==
  /\ mu = "free"
  /\ HasAttempt(c)
  /\ LET k == AttemptIndex(c)
         attempt == dequeue_attempts[k]
     IN /\ \E failing \in FailingSets(attempt.tuples) :
             /\ queues' = RestoreTuples(queues, attempt.tuples, failing)
             /\ alloc_failures' = alloc_failures - Cardinality(failing)
        /\ dequeue_attempts' = RemoveAt(dequeue_attempts, k)
        /\ restored' = [restored EXCEPT ![c] = @ + Len(attempt.tuples)]
  /\ ctx_status' = [ctx_status EXCEPT ![c] = SetStatus(@, "Cancelled")]
  /\ callback_count' = [callback_count EXCEPT ![c] = @ + 1]
  /\ callback_tuple' = [callback_tuple EXCEPT ![c] = RegisteredDoneTuple]
  /\ removed_count' = [removed_count EXCEPT ![c] = @ + 1]
  /\ flush_pending' = TRUE
  /\ UNCHANGED <<config, admission, closed, enqueue_attempts, flush, call_op, next_element,
                 closes, admitted, delivered>>

\* Cancel(kEnqueue, cm, token): a pending enqueue is dropped from the ledger.
CancelEnqueue(k) ==
  /\ mu = "free"
  /\ k \in 1..Len(enqueue_attempts)
  /\ enqueue_attempts[k].kind = "enqueue"
  /\ enqueue_attempts' = RemoveAt(enqueue_attempts, k)
  /\ flush_pending' = TRUE
  /\ UNCHANGED <<config, admission, store, dequeue_attempts, flush, calls, next_element,
                 closes, alloc_failures, history>>

RECURSIVE RestoreAll(_, _)
RestoreAll(qs, attempts) ==
  IF attempts = <<>> THEN qs
  ELSE RestoreTuples(RestoreAll(qs, Tail(attempts)), Head(attempts).tuples, {})

CallsOf(attempts) == {attempts[k].call : k \in 1..Len(attempts)}

RECURSIVE CollectedBy(_, _)
CollectedBy(attempts, c) ==
  IF attempts = <<>> THEN 0
  ELSE (IF Head(attempts).call = c THEN Len(Head(attempts).tuples) ELSE 0)
       + CollectedBy(Tail(attempts), c)

\* Close: Close(false) queues behind the pending enqueues; Close(true) closes
\* at once and fails every attempt of both ledgers, restoring what the
\* dequeue attempts collected.
Close(cancel_pending) ==
  /\ mu = "free"
  /\ closes < MaxCloses
  /\ closes' = closes + 1
  /\ flush_pending' = TRUE
  /\ \/ /\ ~cancel_pending
        /\ enqueue_attempts' =
             Append(enqueue_attempts, [kind |-> "close", tuples |-> <<>>])
        /\ UNCHANGED <<store, dequeue_attempts, calls, restored>>
     \/ /\ cancel_pending
        /\ closed' = TRUE
        /\ enqueue_attempts' = <<>>
        /\ dequeue_attempts' = <<>>
        /\ queues' = RestoreAll(queues, dequeue_attempts)
        /\ LET failed == CallsOf(dequeue_attempts)
           IN /\ ctx_status' = [c \in DequeueCalls |->
                                  IF c \in failed
                                  THEN SetStatus(ctx_status[c], "Cancelled")
                                  ELSE ctx_status[c]]
              /\ callback_count' = [c \in DequeueCalls |->
                                      callback_count[c] + (IF c \in failed THEN 1 ELSE 0)]
              /\ callback_tuple' = [c \in DequeueCalls |->
                                      IF c \in failed THEN RegisteredDoneTuple
                                      ELSE callback_tuple[c]]
              /\ removed_count' = [c \in DequeueCalls |->
                                     removed_count[c] + (IF c \in failed THEN 1 ELSE 0)]
              /\ restored' = [c \in DequeueCalls |->
                                restored[c] + CollectedBy(dequeue_attempts, c)]
        /\ UNCHANGED call_op
  /\ UNCHANGED <<config, admission, flush, next_element, alloc_failures, admitted, delivered>>

\* ------------------------------------------------------------ FlushUnlocked
\* The attempt a pass runs next: the enqueue ledger first, then the dequeue
\* ledger, each in ledger order.
Position(ledger, idx, enq) ==
  IF ledger = "enqueue" /\ idx > Len(enq)
  THEN [ledger |-> "dequeue", idx |-> 1]
  ELSE [ledger |-> ledger, idx |-> idx]

PassOver == pass.ledger = "dequeue" /\ pass.idx > Len(dequeue_attempts)

\* FlushUnlocked takes mu_ and starts a pass.
FlushUnlocked ==
  /\ mu = "free"
  /\ flush_pending
  /\ mu' = "flush"
  /\ flush_pending' = FALSE
  /\ pass' = Position("enqueue", 1, enqueue_attempts)
  /\ changed' = FALSE
  /\ UNCHANGED <<config, admission, store, ledgers, clean_up, calls, next_element, closes,
                 alloc_failures, history>>

\* One run of an enqueue-side attempt's run_callback.
RunEnqueueAttempt ==
  /\ mu = "flush"
  /\ pass.ledger = "enqueue"
  /\ pass.idx <= Len(enqueue_attempts)
  /\ LET r == EnqueueRun(enqueue_attempts[pass.idx], queues, closed)
         done == r.result = "kComplete"
     IN /\ queues' = r.queues
        /\ closed' = r.closed
        /\ admitted' = admitted \o r.pushed
        /\ enqueue_attempts' =
             IF done THEN RemoveAt(enqueue_attempts, pass.idx)
             ELSE [enqueue_attempts EXCEPT ![pass.idx] = r.attempt]
        /\ changed' = (changed \/ r.result # "kNoProgress")
        /\ pass' = Position("enqueue", IF done THEN pass.idx ELSE pass.idx + 1,
                            enqueue_attempts')
  /\ UNCHANGED <<config, admission, dequeue_attempts, mu, clean_up, flush_pending, calls,
                 next_element, closes, alloc_failures, delivered, restored>>

\* run_callback of the attempt, by its kind.
RunCallback(attempt, qs, is_closed, status, failing) ==
  IF attempt.many THEN DequeueManyRun(attempt, qs, is_closed, status, failing)
  ELSE DequeueRun(attempt, qs, is_closed, status)

\* Whether this run of the attempt restores collected elements.
Restores(attempt) ==
  /\ attempt.many
  /\ ClosedInsufficient(closed, Size, attempt.elements_requested)
  /\ attempt.tuples # <<>>

\* One run of a dequeue attempt's run_callback; a completed attempt leaves the
\* ledger and its done_callback joins clean_up.
RunDequeueAttempt ==
  /\ mu = "flush"
  /\ pass.ledger = "dequeue"
  /\ pass.idx <= Len(dequeue_attempts)
  /\ LET attempt == dequeue_attempts[pass.idx]
         c == attempt.call
     IN \E failing \in (IF Restores(attempt) THEN FailingSets(attempt.tuples) ELSE {{}}) :
          LET r == RunCallback(attempt, queues, closed, ctx_status[c], failing)
              done == r.result = "kComplete"
          IN /\ queues' = r.queues
             /\ ctx_status' = [ctx_status EXCEPT ![c] = r.status]
             /\ dequeue_attempts' =
                  IF done THEN RemoveAt(dequeue_attempts, pass.idx)
                  ELSE [dequeue_attempts EXCEPT ![pass.idx] = r.attempt]
             /\ clean_up' =
                  IF done THEN Append(clean_up, [call |-> c, tuple |-> r.done_tuple])
                  ELSE clean_up
             /\ removed_count' =
                  IF done THEN [removed_count EXCEPT ![c] = @ + 1] ELSE removed_count
             /\ restored' = [restored EXCEPT ![c] = @ + Len(r.restored)]
             /\ alloc_failures' = alloc_failures - Cardinality(failing)
             /\ changed' = (changed \/ r.result # "kNoProgress")
             /\ pass' = [pass EXCEPT !.idx = IF done THEN @ ELSE @ + 1]
  /\ UNCHANGED <<config, admission, closed, enqueue_attempts, mu, flush_pending, call_op,
                 callback_count, callback_tuple, next_element, closes, admitted,
                 delivered>>

\* do { ... } while (changed): a pass that changed something is followed by
\* another.
FlushRepeat ==
  /\ mu = "flush"
  /\ PassOver
  /\ changed
  /\ changed' = FALSE
  /\ pass' = Position("enqueue", 1, enqueue_attempts)
  /\ UNCHANGED <<config, admission, store, ledgers, mu, clean_up, flush_pending, calls,
                 next_element, closes, alloc_failures, history>>

RECURSIVE DeliveredRows(_)
DeliveredRows(clean) ==
  IF clean = <<>> THEN <<>>
  ELSE (IF Head(clean).tuple = EmptyTuple THEN <<>> ELSE Head(clean).tuple[1].rows)
       \o DeliveredRows(Tail(clean))

CleanUpFor(c) == SelectSeq(clean_up, LAMBDA e : e.call = c)

\* The pass changed nothing: release mu_ and run the done_callbacks of clean_up.
FlushDone ==
  /\ mu = "flush"
  /\ PassOver
  /\ ~changed
  /\ mu' = "free"
  /\ pass' = StartPass
  /\ clean_up' = <<>>
  /\ callback_count' = [c \in DequeueCalls |-> callback_count[c] + Len(CleanUpFor(c))]
  /\ callback_tuple' = [c \in DequeueCalls |->
                          IF CleanUpFor(c) = <<>> THEN callback_tuple[c]
                          ELSE CleanUpFor(c)[Len(CleanUpFor(c))].tuple]
  /\ delivered' = delivered \o DeliveredRows(clean_up)
  /\ UNCHANGED <<config, admission, store, ledgers, changed, flush_pending, ctx_status,
                 call_op, removed_count, next_element, closes, alloc_failures,
                 admitted, restored>>

\* ------------------------------------------------------------------- Next
Next ==
  \/ TryEnqueue
  \/ \E b \in 2..MaxElements : TryEnqueueMany(b)
  \/ \E c \in DequeueCalls, n \in 0..MaxElements, cancelled \in BOOLEAN :
       TryDequeueMany(c, n, cancelled)
  \/ \E c \in DequeueCalls, cancelled \in BOOLEAN : TryDequeue(c, cancelled)
  \/ \E c \in DequeueCalls : Cancel(c)
  \/ \E k \in 1..MaxElements : CancelEnqueue(k)
  \/ \E cancel_pending \in BOOLEAN : Close(cancel_pending)
  \/ FlushUnlocked
  \/ RunEnqueueAttempt
  \/ RunDequeueAttempt
  \/ FlushRepeat
  \/ FlushDone

Spec == Init /\ [][Next]_vars

\* Without cancellation: the callers never cancel and Close(true) is not used.
NextNoCancel ==
  \/ TryEnqueue
  \/ \E b \in 2..MaxElements : TryEnqueueMany(b)
  \/ \E c \in DequeueCalls, n \in 0..MaxElements : TryDequeueMany(c, n, FALSE)
  \/ \E c \in DequeueCalls : TryDequeue(c, FALSE)
  \/ Close(FALSE)
  \/ FlushUnlocked
  \/ RunEnqueueAttempt
  \/ RunDequeueAttempt
  \/ FlushRepeat
  \/ FlushDone

SpecNoCancel == Init /\ [][NextNoCancel]_vars

SpecFault == InitFault /\ [][Next]_vars

\* Every operation that registers an attempt calls FlushUnlocked before it
\* returns (line 208), and FlushUnlocked runs its passes to the end under mu_:
\* the steps of the scheduler are not postponed forever.
Scheduler ==
  \/ FlushUnlocked
  \/ RunEnqueueAttempt
  \/ RunDequeueAttempt
  \/ FlushRepeat
  \/ FlushDone

\* ENABLED <<Scheduler>>_vars: a flush is asked for, or one is running.
SchedulerEnabled == (mu = "free" /\ flush_pending) \/ mu = "flush"

\* WF_vars(Scheduler), with its ENABLED written out.
Fairness == []<>(~SchedulerEnabled) \/ []<><<Scheduler>>_vars

\* A queue of capacity 2 under every operation, the scheduler being fair.
InitLive == InitWith({2}, QueueConfigs) /\ alloc_failures = 0

SpecLive == InitLive /\ [][Next]_vars /\ Fairness

\* The Enqueue op with tuples of every kind, and consumers.
NextValidate ==
  \/ \E tuple \in Candidates(next_element) : Enqueue(tuple)
  \/ \E c \in DequeueCalls, n \in 0..MaxElements : TryDequeueMany(c, n, FALSE)
  \/ FlushUnlocked
  \/ RunEnqueueAttempt
  \/ RunDequeueAttempt
  \/ FlushRepeat
  \/ FlushDone

SpecValidate == Init /\ [][NextValidate]_vars

\* Producers and batch consumers, without close or cancellation.
NextPad ==
  \/ TryEnqueue
  \/ \E b \in 2..MaxElements : TryEnqueueMany(b)
  \/ \E c \in DequeueCalls, n \in 1..MaxElements : TryDequeueMany(c, n, FALSE)
  \/ FlushUnlocked
  \/ RunEnqueueAttempt
  \/ RunDequeueAttempt
  \/ FlushRepeat
  \/ FlushDone

SpecPad == InitPad /\ [][NextPad]_vars

\* ----------------------------------------------------------------- claims
\* The position of element e in the admission order.
AdmittedAt(e) == CHOOSE k \in 1..Len(admitted) : admitted[k] = e

Elements(seq) == {seq[k] : k \in 1..Len(seq)}

\* seq lists admitted elements, each once, in the order they were admitted.
InAdmissionOrder(seq) ==
  /\ Elements(seq) \subseteq Elements(admitted)
  /\ \A i, j \in 1..Len(seq) : i < j => AdmittedAt(seq[i]) < AdmittedAt(seq[j])

\* seq is a run of consecutively admitted elements.
ConsecutivelyAdmitted(seq) ==
  /\ Elements(seq) \subseteq Elements(admitted)
  /\ \A i \in 1..(Len(seq) - 1) : AdmittedAt(seq[i + 1]) = AdmittedAt(seq[i]) + 1

Succeeded(c) == callback_count[c] > 0 /\ callback_tuple[c] # EmptyTuple

IsBatchCall(c) == call_op[c].kind = "many" /\ call_op[c].n > 0

\* The scheduler is about to run dequeue attempt k.
RunsAttempt(k) ==
  /\ mu = "flush"
  /\ pass.ledger = "dequeue"
  /\ pass.idx = k
  /\ k <= Len(dequeue_attempts)
  /\ call_op' = call_op

\* Component j of the collected tuples, in pop order.
CollectedComponent(tuples, j) == [k \in 1..Len(tuples) |-> tuples[k][j]]

\* C1: FIFO delivery.  Under every interleaving of Enqueue, EnqueueMany,
\* Dequeue, DequeueMany, Close and cancellation, the elements delivered so
\* far, in the order of delivery (batch after batch, row after row), are
\* admitted elements in admission order, none delivered twice; and so are the
\* rows of every component of every delivered batch.
C1_FIFODelivery ==
  /\ InAdmissionOrder(delivered)
  /\ \A c \in DequeueCalls :
       Succeeded(c) =>
         \A i \in 1..Len(callback_tuple[c]) :
           InAdmissionOrder(callback_tuple[c][i].rows)

\* C1 witness: after one call put collected elements back, another call was
\* delivered a batch of at least two rows.
C1_Witness ==
  \E c, d \in DequeueCalls :
    /\ restored[c] >= 1
    /\ Succeeded(d)
    /\ Len(callback_tuple[d][1].rows) >= 2

\* C2: no partial batch.  A DequeueMany(n), n > 0, whose callback ran either
\* received a tuple in which every component has batch dimension n and n rows,
\* the same n consecutively admitted elements in each, with status OK; or it
\* received the empty tuple and its status is an error.
C2_NoPartialBatch ==
  \A c \in DequeueCalls :
    (IsBatchCall(c) /\ callback_count[c] > 0) =>
      IF callback_tuple[c] # EmptyTuple
      THEN /\ ctx_status[c] = "OK"
           /\ Len(callback_tuple[c]) = num_components
           /\ \A i \in 1..Len(callback_tuple[c]) :
                /\ callback_tuple[c][i].shape[1] = call_op[c].n
                /\ Len(callback_tuple[c][i].rows) = call_op[c].n
                /\ callback_tuple[c][i].rows = callback_tuple[c][1].rows
                /\ ConsecutivelyAdmitted(callback_tuple[c][i].rows)
      ELSE ctx_status[c] \in {"OutOfRange", "Cancelled", "DataLoss", "Internal",
                              "Unimplemented"}

\* C2 witness: one call received a full batch of two or more rows and another
\* failed with OutOfRange after it had collected elements.
C2_Witness ==
  \E c, d \in DequeueCalls :
    /\ IsBatchCall(c) /\ Succeeded(c) /\ call_op[c].n >= 2
    /\ IsBatchCall(d) /\ callback_count[d] = 1 /\ callback_tuple[d] = EmptyTuple
    /\ ctx_status[d] = "OutOfRange" /\ restored[d] >= 1

\* Attempts of call c in the ledger, and its completions waiting in clean_up.
InLedger(c) ==
  Cardinality({k \in 1..Len(dequeue_attempts) : dequeue_attempts[k].call = c})

InCleanUp(c) == Len(CleanUpFor(c))

\* Call c registered an Attempt (n > 0 and a context not yet cancelled).
Registered(c) == call_op[c].kind # "none" /\ call_op[c].n > 0 /\ ~call_op[c].already

\* C3: exactly one terminal outcome.  For every DequeueMany call (n = 0,
\* already-cancelled context, or a registered Attempt): its callback is never
\* invoked twice and its Attempt is never removed twice; while the Attempt is
\* in the ledger nothing was called back; a removed Attempt is either waiting
\* in clean_up under the lock or was called back exactly once; and a call
\* that is neither in the ledger nor in clean_up was called back exactly once.
C3_ExactlyOnce ==
  \A c \in DequeueCalls :
    /\ call_op[c].kind = "none" =>
         (callback_count[c] = 0 /\ removed_count[c] = 0 /\ InLedger(c) = 0)
    /\ call_op[c].kind = "many" =>
         /\ callback_count[c] <= 1
         /\ removed_count[c] <= 1
         /\ InLedger(c) + InCleanUp(c) <= 1
         /\ InLedger(c) = 1 => (callback_count[c] = 0 /\ removed_count[c] = 0)
         /\ InCleanUp(c) = 1 =>
              (callback_count[c] = 0 /\ removed_count[c] = 1 /\ mu = "flush")
         /\ (InLedger(c) = 0 /\ InCleanUp(c) = 0) =>
              /\ callback_count[c] = 1
              /\ removed_count[c] = (IF Registered(c) THEN 1 ELSE 0)

\* C3 witness: one registered call was completed by the scheduler, another by
\* the cancellation of its context, each called back once.
C3_Witness ==
  \E c, d \in DequeueCalls :
    /\ IsBatchCall(c) /\ Registered(c) /\ callback_count[c] = 1
    /\ ctx_status[c] \in {"OK", "OutOfRange"}
    /\ IsBatchCall(d) /\ Registered(d) /\ callback_count[d] = 1
    /\ ctx_status[d] = "Cancelled"

\* The store is the collected tuples, in pop order, in front of what it held.
RestoredInFront(tuples) ==
  \A j \in Components : queues'[j] = CollectedComponent(tuples, j) \o queues[j]

\* C4: restoration on short close.  Whenever the scheduler runs a DequeueMany
\* attempt that has collected k >= 1 elements on a closed queue whose store
\* holds fewer elements than the attempt still needs, the attempt completes
\* with OutOfRange and the empty tuple, and the store afterwards is the k
\* collected elements in pop order in front of what it held, each element
\* once and all in admission order.
C4_RestoreOnShortClose ==
  [][\A k \in 1..MaxDequeues :
       (/\ RunsAttempt(k)
        /\ dequeue_attempts[k].many
        /\ dequeue_attempts[k].tuples # <<>>
        /\ closed
        /\ Size < dequeue_attempts[k].elements_requested)
       => LET attempt == dequeue_attempts[k]
          IN /\ ctx_status'[attempt.call] = "OutOfRange"
             /\ RestoredInFront(attempt.tuples)
             /\ \A j \in Components : InAdmissionOrder(queues'[j])
             /\ dequeue_attempts' = RemoveAt(dequeue_attempts, k)
             /\ clean_up' = Append(clean_up, [call |-> attempt.call,
                                              tuple |-> EmptyTuple])
    ]_vars

\* C4 witness: a call has just failed with OutOfRange and put back what it
\* had collected, in front of an element the store held.
C4_Witness ==
  \E c \in DequeueCalls :
    /\ ctx_status[c] = "OutOfRange"
    /\ restored[c] >= 1
    /\ Size > restored[c]
    /\ mu = "flush"
    /\ InCleanUp(c) = 1

\* C5: cancellation mid-attempt.  Whenever the context of a pending DequeueMany
\* attempt that has collected k >= 1 elements is cancelled, the call fails
\* with Cancelled and the empty tuple, and the store afterwards is the k
\* collected elements in pop order in front of what it held, all in admission
\* order.
C5_CancelMidAttempt ==
  [][\A k \in 1..MaxDequeues :
       (/\ mu = "free"
        /\ k <= Len(dequeue_attempts)
        /\ dequeue_attempts[k].many
        /\ dequeue_attempts[k].tuples # <<>>
        /\ callback_count'[dequeue_attempts[k].call]
             # callback_count[dequeue_attempts[k].call])
       => LET attempt == dequeue_attempts[k]
          IN /\ ctx_status'[attempt.call] = "Cancelled"
             /\ callback_tuple'[attempt.call] = EmptyTuple
             /\ callback_count'[attempt.call] = 1
             /\ RestoredInFront(attempt.tuples)
             /\ \A j \in Components : InAdmissionOrder(queues'[j])
             /\ \A m \in 1..Len(dequeue_attempts') :
                  dequeue_attempts'[m].call # attempt.call
    ]_vars

\* C5 witness: a cancelled call put two collected elements back.
C5_Witness ==
  \E c \in DequeueCalls :
    /\ ctx_status[c] = "Cancelled"
    /\ restored[c] >= 2
    /\ Size >= 2
    /\ closed = FALSE
    /\ callback_count[c] = 1

\* C6: capacity bound.  The store of a queue created with capacity c > 0
\* never holds more than c tuples.
C6_CapacityBound == Size <= capacity

\* The rows delivered to call c.
RowsOf(c) == Elements(callback_tuple[c][1].rows)

\* C7: registration-order service.  An Attempt joins the ledger at its back;
\* an element is popped only by the attempt at the head of the ledger, so
\* never by a later-registered attempt while an earlier one is pending; and
\* of two registered calls that both succeeded, every element delivered to
\* the earlier-registered one was admitted before every element delivered to
\* the later-registered one.
C7_RegistrationOrder ==
  /\ [][Len(dequeue_attempts') > Len(dequeue_attempts)
        => /\ Len(dequeue_attempts') = Len(dequeue_attempts) + 1
           /\ SubSeq(dequeue_attempts', 1, Len(dequeue_attempts)) = dequeue_attempts
       ]_vars
  /\ [][Len(queues'[1]) < Len(queues[1])
        => (mu = "flush" /\ pass.ledger = "dequeue" /\ pass.idx = 1)
       ]_vars
  /\ [](\A c, d \in DequeueCalls :
          (c < d /\ Registered(c) /\ Registered(d) /\ Succeeded(c) /\ Succeeded(d))
          => \A x \in RowsOf(c), y \in RowsOf(d) : AdmittedAt(x) < AdmittedAt(y))

\* C7 witness: two attempts were pending together, the earlier-registered one
\* received two rows and the later-registered one a row after it.
C7_Witness ==
  /\ Registered(1) /\ Registered(2)
  /\ Succeeded(1) /\ Succeeded(2)
  /\ call_op[1].kind = "many" /\ call_op[1].n = 2
  /\ call_op[2].kind = "many"
  /\ delivered = callback_tuple[1][1].rows \o callback_tuple[2][1].rows

\* The queue cannot assemble a batch: a component type outside AllTypes, or a
\* component with a free dimension and a rank above MaxHandledRank.
UnsupportedConfig ==
  \E i \in Components :
    \/ component_dtypes[i] \notin AllTypes
    \/ (\E d \in 1..Len(partial_shapes[i]) : partial_shapes[i][d] = -1)
       /\ Len(partial_shapes[i]) > MaxHandledRank

\* The scheduler runs, on a closed queue that holds at least n elements, the
\* attempt k of a DequeueMany(n) issued after the close.
RunsAfterClose(k) ==
  /\ RunsAttempt(k)
  /\ dequeue_attempts[k].many
  /\ call_op[dequeue_attempts[k].call].after_close
  /\ closed
  /\ call_op[dequeue_attempts[k].call].n <= Size

\* The run ends attempt k and binds the n oldest elements of the store.
DeliversOldest(k) ==
  LET c == dequeue_attempts[k].call
      n == call_op[c].n
      done == clean_up'[Len(clean_up')]
  IN /\ Len(clean_up') = Len(clean_up) + 1
     /\ done.call = c
     /\ done.tuple # EmptyTuple
     /\ \A i \in Components : done.tuple[i].rows = SubSeq(queues[i], 1, n)

CloseIsOneWay == [][closed => closed']_vars

NoAdmissionAfterClose == [][closed => admitted' = admitted]_vars

\* A call's status becomes OutOfRange only when the scheduler runs its attempt
\* on a closed queue that holds fewer elements than the attempt still needs.
OutOfRangeOnlyWhenShort ==
  [][\A c \in DequeueCalls :
       (ctx_status'[c] = "OutOfRange" /\ ctx_status[c] # "OutOfRange")
       => \E k \in 1..Len(dequeue_attempts) :
            /\ RunsAttempt(k)
            /\ dequeue_attempts[k].call = c
            /\ closed
            /\ Size < dequeue_attempts[k].elements_requested
    ]_vars

\* C8 as stated: close is one-way, nothing is admitted once the queue is
\* closed, and a DequeueMany(n) issued after the close and run with n not
\* greater than the store size completes successfully with the n oldest
\* elements; OutOfRange only when the store is short.
C8_AsStated ==
  /\ CloseIsOneWay
  /\ NoAdmissionAfterClose
  /\ OutOfRangeOnlyWhenShort
  /\ [][\A k \in 1..MaxDequeues :
          RunsAfterClose(k)
          => /\ ctx_status'[dequeue_attempts[k].call] = "OK"
             /\ DeliversOldest(k)
       ]_vars

\* C8, amended: as stated, except that the DequeueMany(n) run on the closed
\* queue pops the n oldest elements and completes successfully with them when
\* the assembler supports the queue's component types and ranks, and
\* completes with Unimplemented and the empty tuple when it does not.
C8_CloseKeepsElements ==
  /\ CloseIsOneWay
  /\ NoAdmissionAfterClose
  /\ OutOfRangeOnlyWhenShort
  /\ [][\A k \in 1..MaxDequeues :
          RunsAfterClose(k)
          => LET c == dequeue_attempts[k].call
             IN /\ dequeue_attempts' = RemoveAt(dequeue_attempts, k)
                /\ \A i \in Components :
                     queues'[i] = SubSeq(queues[i], call_op[c].n + 1, Len(queues[i]))
                /\ IF UnsupportedConfig
                   THEN /\ ctx_status'[c] = "Unimplemented"
                        /\ clean_up' = Append(clean_up, [call |-> c,
                                                         tuple |-> EmptyTuple])
                   ELSE /\ ctx_status'[c] = "OK"
                        /\ DeliversOldest(k)
       ]_vars

\* C8 witness: a DequeueMany(2) issued after the close received the two
\* elements the closed queue held.
C8_Witness ==
  \E c \in DequeueCalls :
    /\ closed
    /\ call_op[c].kind = "many" /\ call_op[c].after_close /\ call_op[c].n = 2
    /\ Succeeded(c)
    /\ ctx_status[c] = "OK"

\* Call c is made in this step as DequeueMany(0).
CallsDequeueZero(c) ==
  call_op[c].kind = "none" /\ call_op'[c].kind = "many" /\ call_op'[c].n = 0

\* C9: DequeueMany(0) is synchronous and leaves the queue alone.  The step
\* that makes the call invokes the callback, once, with one tensor per
\* component whose shape is 0 followed by the declared shape with each free
\* dimension as 0; the status stays OK; and the store, both ledgers, the
\* closed flag, the lock and the pending flush are unchanged.
C9_DequeueZero ==
  [][\A c \in DequeueCalls :
       CallsDequeueZero(c)
       => /\ callback_count'[c] = 1
          /\ ctx_status'[c] = "OK"
          /\ Len(callback_tuple'[c]) = num_components
          /\ \A i \in Components :
               /\ callback_tuple'[c][i].rows = <<>>
               /\ callback_tuple'[c][i].shape =
                    <<0>> \o [d \in 1..Len(partial_shapes[i]) |->
                                IF partial_shapes[i][d] = -1 THEN 0
                                ELSE partial_shapes[i][d]]
          /\ UNCHANGED <<queues, closed, enqueue_attempts, dequeue_attempts,
                         mu, pass, changed, clean_up, flush_pending>>
    ]_vars

\* C9 witness: DequeueMany(0) was called back with a cancelled context on a
\* closed, non-empty queue with an attempt pending.
C9_Witness ==
  \E c \in DequeueCalls :
    /\ call_op[c].kind = "many" /\ call_op[c].n = 0 /\ call_op[c].already
    /\ callback_count[c] = 1
    /\ callback_tuple[c] # EmptyTuple
    /\ closed
    /\ Size > 0
    /\ dequeue_attempts # <<>>

\* Call c is made in this step as DequeueMany(n), n > 0, with a context that
\* is already cancelled.
CallsCancelled(c) ==
  /\ call_op[c].kind = "none"
  /\ call_op'[c].kind = "many"
  /\ call_op'[c].n > 0
  /\ call_op'[c].already

\* C10: fail-fast on an already-cancelled context.  The step that makes the
\* call ends it with Cancelled and the empty tuple, called back once; no
\* Attempt joins the ledger, no flush is asked for, and the store is
\* unchanged; and such a call never has an Attempt in the ledger.
C10_FailFastCancelled ==
  /\ [][\A c \in DequeueCalls :
          CallsCancelled(c)
          => /\ ctx_status'[c] = "Cancelled"
             /\ callback_tuple'[c] = EmptyTuple
             /\ callback_count'[c] = 1
             /\ UNCHANGED <<queues, closed, enqueue_attempts, dequeue_attempts,
                            mu, pass, changed, clean_up, flush_pending>>
       ]_vars
  /\ [](\A c \in DequeueCalls :
          (call_op[c].kind = "many" /\ call_op[c].n > 0 /\ call_op[c].already)
          => (InLedger(c) = 0 /\ InCleanUp(c) = 0 /\ removed_count[c] = 0
              /\ ctx_status[c] = "Cancelled" /\ callback_tuple[c] = EmptyTuple))

\* C10 witness: a DequeueMany(2) with a cancelled context ended with Cancelled
\* while the store held two elements.
C10_Witness ==
  \E c \in DequeueCalls :
    /\ call_op[c].kind = "many" /\ call_op[c].n = 2 /\ call_op[c].already
    /\ ctx_status[c] = "Cancelled"
    /\ callback_count[c] = 1
    /\ Size >= 2

\* The tuple does not fit the queue: the wrong number of components, a
\* component of the wrong type, of the wrong rank, or with a fixed dimension of
\* the wrong size.
IsMalformed(t) ==
  \/ Len(t) # num_components
  \/ \E i \in Components :
       \/ t[i].dtype # component_dtypes[i]
       \/ Len(t[i].shape) # Len(partial_shapes[i])
       \/ \E d \in 1..Len(partial_shapes[i]) :
            partial_shapes[i][d] # -1 /\ t[i].shape[d] # partial_shapes[i][d]

\* C11: rejected tuples are never admitted.  An Enqueue of a tuple with the
\* wrong number of components, a component of the wrong type or a shape not
\* compatible with the declared rank and fixed dimensions returns
\* InvalidArgument in the step of the call, creates no Attempt and leaves the
\* store, the ledgers and the pending flush unchanged; every other tuple,
\* whatever the size of its free dimension, is accepted and gets an Attempt.
C11_RejectedNeverAdmitted ==
  [][(rejected' # rejected \/ next_element' # next_element)
     => IF IsMalformed(enqueue_op'.tuple)
        THEN /\ enqueue_op'.status = "InvalidArgument"
             /\ UNCHANGED <<queues, closed, enqueue_attempts, dequeue_attempts,
                            flush_pending, admitted, next_element, mu>>
        ELSE /\ enqueue_op'.status = "OK"
             /\ rejected' = rejected
             /\ enqueue_attempts' =
                  Append(enqueue_attempts,
                         [kind |-> "enqueue", tuples |-> <<MakeTuple(next_element)>>])
    ]_vars

\* C11 witness: with elements of every free size admitted before, a tuple
\* whose fixed dimension has the wrong size was rejected.
C11_Witness ==
  /\ rejected = 1
  /\ enqueue_op.status = "InvalidArgument"
  /\ Len(enqueue_op.tuple) = num_components
  /\ \A i \in Components : enqueue_op.tuple[i].dtype = component_dtypes[i]
  /\ enqueue_op.tuple[2].shape = <<3>>
  /\ partial_shapes[2] = <<2>>
  /\ Len(admitted) = 2
  /\ Size = 2

\* The largest member of a non-empty set of numbers.
Largest(S) == CHOOSE m \in S : \A x \in S : x <= m

\* The target shape of component i for a batch of the given rows: the
\* declared size of a fixed dimension, the largest actual size of a free one.
TargetShape(i, rows) ==
  [d \in 1..Len(partial_shapes[i]) |->
     IF partial_shapes[i][d] # -1 THEN partial_shapes[i][d]
     ELSE Largest({TensorShapeOf(rows[j], i)[d] : j \in 1..Len(rows)})]

\* Position p lies inside the extent of component i of element e.
InsideExtent(e, i, p) ==
  \A d \in 1..Len(p) : p[d] < TensorShapeOf(e, i)[d]

\* C12: padding correctness.  Every component of the batch a successful
\* DequeueMany(n), n > 0, is called back with has shape n followed by the
\* target shape, and at row j and position p it holds element j's value at p
\* when p is inside element j's extent and zero otherwise.
C12_PaddingCorrect ==
  \A c \in DequeueCalls :
    (IsBatchCall(c) /\ Succeeded(c))
    => \A i \in Components :
         LET out == callback_tuple[c][i]
         IN /\ Len(out.rows) = call_op[c].n
            /\ out.shape = <<call_op[c].n>> \o TargetShape(i, out.rows)
            /\ DOMAIN out.values = Indexes(out.shape)
            /\ \A idx \in Indexes(out.shape) :
                 out.values[idx] =
                   IF InsideExtent(out.rows[idx[1] + 1], i, Tail(idx))
                   THEN ElementValue(out.rows[idx[1] + 1], i, Tail(idx))
                   ELSE 0

\* C12 witness: a batch of three elements of shapes [1,2], [2,0] and [0,1]
\* was delivered as a [3,2,2] buffer, padded with zeros.
C12_Witness ==
  \E c \in DequeueCalls :
    /\ IsBatchCall(c) /\ Succeeded(c)
    /\ partial_shapes[1] = <<-1, -1>>
    /\ callback_tuple[c][1].rows = <<1, 2, 3>>
    /\ callback_tuple[c][1].shape = <<3, 2, 2>>
    /\ callback_tuple[c][1].values[<<0, 0, 1>>] # 0
    /\ callback_tuple[c][1].values[<<0, 1, 0>>] = 0

\* C13: store-length invariant.  Whenever mu_ is not held, all per-component
\* containers of the store have the same length, also after a restoration in
\* which the copy of some component failed.
C13_StoreLengths ==
  mu = "free" => \A i \in Components : Len(queues[i]) = Len(queues[1])

\* C13 witness: mu_ is free after a restoration in which one copy failed: the
\* store holds a default tensor in one container and an element in the other.
C13_Witness ==
  /\ mu = "free"
  /\ Size >= 2
  /\ \E k \in 1..Size :
       \E i, j \in Components : queues[i][k] = Uninit /\ queues[j][k] # Uninit
  /\ \E c \in DequeueCalls : restored[c] >= 2 /\ ctx_status[c] = "OutOfRange"

\* Component j of what the attempts collected, attempt after attempt in ledger
\* order, each in pop order.
RECURSIVE AllCollected(_, _)
AllCollected(attempts, j) ==
  IF attempts = <<>> THEN <<>>
  ELSE CollectedComponent(Head(attempts).tuples, j) \o AllCollected(Tail(attempts), j)

\* The admitted elements that were not delivered, in admission order.
Undelivered == SelectSeq(admitted, LAMBDA e : e \notin Elements(delivered))

\* Some call ended with an error of the assembler.
AssemblerFailed == \E c \in DequeueCalls : ctx_status[c] \in {"Unimplemented", "Internal"}

\* This step is Close(cancel_pending = true): the queue is closed at once.
ClosesAndCancels == mu = "free" /\ ~closed /\ closed'

\* Close(true) fails every attempt of the ledger with an error and the empty
\* tuple, leaves none pending, and puts what they collected back in front of
\* the store in its original order.
FailsAndRestoresAll ==
  /\ enqueue_attempts' = <<>>
  /\ dequeue_attempts' = <<>>
  /\ \A k \in 1..Len(dequeue_attempts) :
       LET c == dequeue_attempts[k].call
       IN /\ ctx_status'[c] = "Cancelled"
          /\ callback_tuple'[c] = EmptyTuple
          /\ callback_count[c] = 0 /\ callback_count'[c] = 1
  /\ \A j \in Components : queues'[j] = AllCollected(dequeue_attempts, j) \o queues[j]

OldestCanBeServed(c) ==
  /\ ~closed
  /\ dequeue_attempts # <<>>
  /\ dequeue_attempts[1].call = c
  /\ dequeue_attempts[1].many
  /\ Len(dequeue_attempts[1].tuples) + Size >= call_op[c].n

\* Call c has completed: its attempt left the ledger and its callback ran.
Completed(c) == ~HasAttempt(c) /\ callback_count[c] = 1

Quiescent == mu = "free" /\ ~flush_pending

\* C16: scheduler quiescence.  When the scheduler has finished a run and the
\* lock is released, a DequeueMany attempt that is still pending in the ledger
\* means that the queue is not closed and the store is empty.
C16_Quiescence ==
  (Quiescent /\ \E k \in 1..Len(dequeue_attempts) : dequeue_attempts[k].many)
  => (~closed /\ Size = 0)

\* C16 witness: the scheduler is quiescent with two DequeueMany attempts
\* pending, the first having collected two elements.
C16_Witness ==
  /\ Quiescent
  /\ Len(dequeue_attempts) = 2
  /\ \A k \in 1..2 : dequeue_attempts[k].many
  /\ Len(dequeue_attempts[1].tuples) = 2
  /\ Len(admitted) = 2

\* The admitted elements that were not handed to a completed attempt, in
\* admission order: neither delivered by a callback nor bound into one that
\* the running flush is about to invoke.
NotYetDelivered ==
  SelectSeq(admitted,
            LAMBDA e : e \notin Elements(delivered) \cup Elements(DeliveredRows(clean_up)))

\* Only the oldest pending attempt holds collected elements, and every pending
\* DequeueMany attempt has collected what its count has gone down by.
OneCollector ==
  /\ \A k \in 2..Len(dequeue_attempts) : dequeue_attempts[k].tuples = <<>>
  /\ \A k \in 1..Len(dequeue_attempts) :
       dequeue_attempts[k].many
       => Len(dequeue_attempts[k].tuples) + dequeue_attempts[k].elements_requested
            = call_op[dequeue_attempts[k].call].n

\* The collected elements in pop order followed by the store are the admitted
\* elements not yet delivered, in admission order.
NothingMissing ==
  \A j \in Components : AllCollected(dequeue_attempts, j) \o queues[j] = NotYetDelivered

BatchOf(k) ==
  dequeue_attempts[k].tuples
  \o [m \in 1..dequeue_attempts[k].elements_requested |->
        [i \in Components |-> queues[i][m]]]

\* C18: the padded-copy overflow is unreachable for validated input.  For
\* every batch the assembler is given, every element has at most as many
\* entries as one slot of the output buffer computed for the batch, and the
\* output's rank is the element's rank plus one; no call ever ends with
\* Internal.
C18_NoOverflow ==
  /\ [](\A c \in DequeueCalls : ctx_status[c] # "Internal")
  /\ [][\A k \in 1..MaxDequeues :
          (/\ RunsAttempt(k)
           /\ dequeue_attempts[k].many
           /\ Size >= dequeue_attempts[k].elements_requested)
          => \A i \in Components : \A m \in 1..Len(BatchOf(k)) :
               LET element_shape == TensorShapeOf(BatchOf(k)[m][i], i)
                   parent_shape == BatchShape(i, BatchOf(k))
               IN /\ NumElements(element_shape) <= NumElements(Tail(parent_shape))
                  /\ Len(parent_shape) = Len(element_shape) + 1
                  /\ ctx_status'[dequeue_attempts[k].call] # "Internal"
       ]_vars

\* C18 witness: a batch of an element of shape [2,2] and one of shape [0,2]
\* was assembled without error.
C18_Witness ==
  \E c \in DequeueCalls :
    /\ IsBatchCall(c) /\ Succeeded(c)
    /\ ctx_status[c] = "OK"
    /\ partial_shapes[1] = <<-1, 2>>
    /\ callback_tuple[c][1].rows = <<2, 3>>
    /\ callback_tuple[c][1].shape = <<2, 2, 2>>

\* C19: a restoration copy failure is reported as DataLoss.  When the run of
\* an attempt on a closed queue with insufficient elements restores what the
\* attempt collected and the copy of some component fails, the attempt leaves
\* the ledger with the empty tuple bound to its callback, once, and the status
\* its caller gets is DataLoss, not OutOfRange.
C19_DataLossReported ==
  [][\A k \in 1..MaxDequeues :
       (/\ RunsAttempt(k)
        /\ Restores(dequeue_attempts[k])
        /\ alloc_failures' < alloc_failures)
       => LET c == dequeue_attempts[k].call
          IN /\ ctx_status'[c] = "DataLoss"
             /\ dequeue_attempts' = RemoveAt(dequeue_attempts, k)
             /\ clean_up' = Append(clean_up, [call |-> c, tuple |-> EmptyTuple])
             /\ callback_count[c] = 0
    ]_vars

\* The scheduler runs attempt k, a DequeueMany that the store can satisfy, on
\* a queue whose batches the assembler cannot build.
RunsFailingAssembly(k) ==
  /\ RunsAttempt(k)
  /\ dequeue_attempts[k].many
  /\ Size >= dequeue_attempts[k].elements_requested
  /\ UnsupportedConfig

\* C20: an assembler error terminates only the attempt.  When the zero-fill
\* or a copy fails after the attempt collected all its elements, the attempt
\* leaves the ledger with the error as its caller's status and the empty tuple
\* bound to its callback; the closed flag, the other attempts and the
\* elements left in the store are unchanged, and deliveries go on in
\* admission order.
C20_AssemblerErrorIsLocal ==
  /\ [][\A k \in 1..MaxDequeues :
          RunsFailingAssembly(k)
          => LET c == dequeue_attempts[k].call
                 n == dequeue_attempts[k].elements_requested
             IN /\ ctx_status'[c] = "Unimplemented"
                /\ clean_up' = Append(clean_up, [call |-> c, tuple |-> EmptyTuple])
                /\ dequeue_attempts' = RemoveAt(dequeue_attempts, k)
                /\ UNCHANGED <<closed, enqueue_attempts, mu>>
                /\ \A d \in DequeueCalls \ {c} : ctx_status'[d] = ctx_status[d]
                /\ \A j \in Components :
                     queues'[j] = SubSeq(queues[j], n + 1, Len(queues[j]))
       ]_vars
  /\ [](/\ InAdmissionOrder(delivered)
        /\ \A j \in Components : InAdmissionOrder(queues[j])
        /\ \A c \in DequeueCalls :
             ctx_status[c] = "Unimplemented" => callback_tuple[c] = EmptyTuple)

\* C20 witness: the first call, a DequeueMany, ended with Unimplemented and no
\* output; the second was then served the next element, and one more is in
\* the store of the open queue.
C20_Witness ==
  /\ IsBatchCall(1)
  /\ ctx_status[1] = "Unimplemented"
  /\ callback_count[1] = 1 /\ callback_tuple[1] = EmptyTuple
  /\ Succeeded(2)
  /\ delivered = <<2>>
  /\ queues[1] = <<3>>
  /\ ~closed

====
